---- MODULE Spec2Model ----
(***************************************************************************)
(* TieredStorage (accounts-db/src/tiered_storage.rs): a handle that binds  *)
(* a path to a write-once reader cell, the write_accounts entry point, the *)
(* hot-storage write pass and the reader over the sealed file.             *)
(*                                                                         *)
(* write_accounts takes &self on a Sync type, so calls on one handle may   *)
(* overlap; each call is modelled as a sequence of steps, one per access   *)
(* to shared state (the OnceLock and the filesystem).                      *)
(*                                                                         *)
(* The filesystem is a map from paths to files; a file keeps its identity  *)
(* (an index into `files`) after its name is removed, which is what an     *)
(* open descriptor or a memory map keeps alive.                            *)
(*                                                                         *)
(* TransactionState (core/src/banking_stage/transaction_scheduler/         *)
(* transaction_state.rs): the two-variant state of a transaction in the    *)
(* scheduler, its transitions and their panics.  It shares no state with   *)
(* the storage and has a specification of its own, SpecTx.                 *)
(***************************************************************************)
EXTENDS Integers, Sequences, FiniteSets, TLC

\* ------------------------------------------------------------------ bounds
NumHandles == 2
NumThreads == 2
MaxFiles == 2
\* The longest batch, where calls overlap and where they do not.
MaxBatch == 1
MaxBatchSeq == 3
\* The largest index position a reader is asked for.
MaxPosition == 4
\* The largest max_age_slot and the largest compute unit price and limit.
MaxSlot == 2
MaxPrice == 1
\* The transitions one TransactionState is taken through.
MaxTransitions == 4

Handles == 1..NumHandles
Threads == 1..NumThreads
Paths == {"p1", "p2"}

\* --------------------------------------------------------- on-disk sizes
\* Footer fields of the container layout: meta-record size, four format
\* ids, owners offset and length, index offset and length, record count.
WordSize == 8
FormatIdSize == 1
AddressSize == 32
MetaSize == 8
IndexEntrySize == 8
FooterSize == WordSize + 4 * FormatIdSize + 4 * WordSize + WordSize
MagicSize == WordSize

\* ---------------------------------------------------------------- formats
HOT_FORMAT ==
    [meta_entry_size |-> MetaSize, account_meta_format |-> "Hot",
     owners_block_format |-> "AddressesOnly",
     index_block_format |-> "AddressesThenOffsets",
     account_block_format |-> "AlignedRaw"]

\* A descriptor that differs from HOT_FORMAT in one field.
OTHER_FORMAT == [HOT_FORMAT EXCEPT !.account_meta_format = "Cold"]

Formats == {HOT_FORMAT, OTHER_FORMAT}

\* ----------------------------------------------------------------- inputs
NoAccount == [none |-> TRUE]
OWNER_NO_OWNER == "owner0"
HashDefault == "hash0"

\* The entries a batch is drawn from: what StorableAccountsWithHashesAnd-
\* WriteVersions::get(i) yields, (account, address, account_hash).  The
\* account view is optional; two entries share an owner.
Account1 ==
    [address |-> "a1", hash |-> "x1",
     account |-> [lamports |-> 1, owner |-> "o1", data |-> <<1>>,
                  executable |-> TRUE]]
Account2 ==
    [address |-> "a2", hash |-> "x2",
     account |-> [lamports |-> 2, owner |-> "o1", data |-> <<2, 2>>,
                  executable |-> FALSE]]
Account3 == [address |-> "a3", hash |-> "x3", account |-> NoAccount]

AccountPool == {Account1, Account2, Account3}

\* The batches of at most n entries of a pool.
BatchesOf(pool, n) == UNION { [1..m -> pool] : m \in 0..n }

\* The fields the write pass persists for an entry: those of the account
\* view and the given hash, or the defaults when the entry has no account
\* view.
PersistedFields(entry) ==
    IF entry.account = NoAccount
    THEN [lamports |-> 0, owner |-> OWNER_NO_OWNER, data |-> <<>>,
          executable |-> FALSE, hash |-> HashDefault]
    ELSE [lamports |-> entry.account.lamports, owner |-> entry.account.owner,
          data |-> entry.account.data,
          executable |-> entry.account.executable, hash |-> entry.hash]

\* tests::verify_account: what a stored record is compared with, the
\* account view's fields and the given hash, or the defaults when the
\* entry has no account view.
ExpectedFields(entry) ==
    IF entry.account = NoAccount
    THEN [lamports |-> 0, owner |-> OWNER_NO_OWNER, data |-> <<>>,
          executable |-> FALSE, hash |-> HashDefault]
    ELSE [lamports |-> entry.account.lamports, owner |-> entry.account.owner,
          data |-> entry.account.data,
          executable |-> entry.account.executable, hash |-> entry.hash]

\* ------------------------------------------------------------- write pass
\* The entries a pass encodes: the batch from the start index to its end.
EntriesFrom(batch, skip) == SubSeq(batch, skip + 1, Len(batch))

\* An owners table that takes every entry's owner, seen before or not.
OwnersTable_nodedup(entries) ==
    [i \in 1..Len(entries) |-> PersistedFields(entries[i]).owner]

RECURSIVE OwnersTable(_)
\* The owners table after the entries: each owner once, first seen first.
OwnersTable(entries) ==
    IF Len(entries) = 0 THEN <<>>
    ELSE LET n == Len(entries)
             before == OwnersTable(SubSeq(entries, 1, n - 1))
             owner == PersistedFields(entries[n]).owner
         IN IF \E i \in 1..Len(before) : before[i] = owner
            THEN before
            ELSE Append(before, owner)

\* The 0-based index of an owner address in an owners table.
OwnerIndex(owners, owner) ==
    (CHOOSE i \in 1..Len(owners) : owners[i] = owner) - 1

\* The metadata + payload of one entry, its owner given by index.
StoredRecord(entry, owners) ==
    LET f == PersistedFields(entry)
    IN [address |-> entry.address, lamports |-> f.lamports,
        owner_index |-> OwnerIndex(owners, f.owner), data |-> f.data,
        executable |-> f.executable, hash |-> f.hash]

EncodedSize(rec) == MetaSize + Len(rec.data)

RECURSIVE BlockSize(_)
\* The bytes of a sequence of stored records.
BlockSize(recs) ==
    IF Len(recs) = 0 THEN 0
    ELSE EncodedSize(recs[Len(recs)]) + BlockSize(SubSeq(recs, 1, Len(recs) - 1))

\* The data block of a pass over the entries: record i lands at the write
\* cursor the records before it left.
DataBlock(entries) ==
    LET owners == OwnersTable(entries)
        recs == [i \in 1..Len(entries) |-> StoredRecord(entries[i], owners)]
    IN [i \in 1..Len(entries) |->
           [offset |-> BlockSize(SubSeq(recs, 1, i - 1)), rec |-> recs[i]]]

\* An index block whose entries run against the write order.
IndexBlock_reversed(entries) ==
    LET data == DataBlock(entries)
    IN [i \in 1..Len(entries) |-> data[Len(entries) + 1 - i].offset]

IndexBlock(entries) ==
    LET data == DataBlock(entries)
    IN [i \in 1..Len(entries) |-> data[i].offset]

NoFooter == [none |-> TRUE]

Footer(entries, format) ==
    LET data == DataBlock(entries)
        dataSize == BlockSize([i \in 1..Len(data) |-> data[i].rec])
        owners == OwnersTable(entries)
    IN [meta_entry_size |-> format.meta_entry_size,
        account_meta_format |-> format.account_meta_format,
        owners_block_format |-> format.owners_block_format,
        index_block_format |-> format.index_block_format,
        account_block_format |-> format.account_block_format,
        owners_block_offset |-> dataSize,
        owner_count |-> Len(owners),
        index_block_offset |-> dataSize + Len(owners) * AddressSize,
        index_block_size |-> Len(entries) * IndexEntrySize,
        account_entry_count |-> Len(entries)]

\* A file just created: no bytes.
EmptyFile ==
    [data |-> <<>>, owners |-> <<>>, index |-> <<>>, footer |-> NoFooter,
     magic |-> FALSE]

\* The writes of a pass, in order: one per entry, then the owners block,
\* the index block, the footer, the magic number.
WriteSteps(entries) == Len(entries) + 4

\* The file after the first k writes of a pass over the entries.
FileAfter(entries, k) ==
    LET n == Len(entries)
    IN [data |-> SubSeq(DataBlock(entries), 1, IF k < n THEN k ELSE n),
        owners |-> IF k >= n + 1 THEN OwnersTable(entries) ELSE <<>>,
        index |-> IF k >= n + 2 THEN IndexBlock(entries) ELSE <<>>,
        footer |-> IF k >= n + 3 THEN Footer(entries, HOT_FORMAT) ELSE NoFooter,
        magic |-> k >= n + 4]

\* Placement results reported last entry first.
StoredInfos_reversed(entries) ==
    LET data == DataBlock(entries)
        n == Len(entries)
    IN [i \in 1..n |->
           [offset |-> data[n + 1 - i].offset,
            size |-> EncodedSize(data[n + 1 - i].rec)]]

\* The placement results of a completed pass: one per entry, in order.
StoredInfos(entries) ==
    LET data == DataBlock(entries)
    IN [i \in 1..Len(entries) |->
           [offset |-> data[i].offset, size |-> EncodedSize(data[i].rec)]]

\* The bytes of a file.
FileLen(c) ==
    BlockSize([i \in 1..Len(c.data) |-> c.data[i].rec])
    + Len(c.owners) * AddressSize + Len(c.index) * IndexEntrySize
    + (IF c.footer = NoFooter THEN 0 ELSE FooterSize)
    + (IF c.magic THEN MagicSize ELSE 0)

\* ------------------------------------------------------------------ errors
Ok(infos) == [kind |-> "Ok", path |-> "", infos |-> infos]
Err(kind, p) == [kind |-> kind, path |-> p, infos |-> <<>>]

\* ------------------------------------------------------------------ state
VARIABLES
    hstate,     \* handle -> "unborn", "live", "dropped", "forgotten",
                \*           "drop_panicked"
    path,       \* handle -> TieredStorage::path
    reader,     \* handle -> TieredStorage::reader, the OnceLock's content
    fs,         \* path -> the file of that name (0: no such file)
    files,      \* the files ever created, by identity
    call,       \* thread -> its write_accounts call in flight
    returned,   \* handle -> some write_accounts call on it has returned
    born,       \* handle -> the constructor that made it
    got,        \* what the latest get_account call returned, while its
                \* caller holds it
    opened,     \* what the latest new_readonly call returned, until the
                \* caller's next step
    txstate,    \* the TransactionState, once constructed
    txheld,     \* the SanitizedTransactionTTL the scheduler holds, moved
                \* out of the state by transition_to_pending
    txlast,     \* the latest TransactionState call: name, argument, result
    txcount,    \* the transitions that have succeeded
    txpanic     \* the panic message, once a call has panicked

\* The storage's variables and the transaction state's.
svars == <<hstate, path, reader, fs, files, call, returned, born, got, opened>>
txvars == <<txstate, txheld, txlast, txcount, txpanic>>
vars == <<hstate, path, reader, fs, files, call, returned, born, got, opened,
          txstate, txheld, txlast, txcount, txpanic>>

NoReader == [none |-> TRUE]
NoFile == 0

NoBatch == <<>>

\* No get_account result is held.
NoRead == [none |-> TRUE]

\* No new_readonly result is held.
NoOpen == [none |-> TRUE]

\* A thread that is not inside write_accounts.
Idle ==
    [pc |-> "idle", h |-> 0, format |-> HOT_FORMAT, fd |-> NoFile,
     batch |-> NoBatch, skip |-> 0,
     result |-> Ok(<<>>), rd |-> NoReader, ret |-> Ok(<<>>)]

\* ----------------------------------------------------------------- reader
\* The footer describes the file it closes.
FooterConsistent(c) ==
    /\ c.footer # NoFooter
    /\ c.footer.account_entry_count = Len(c.index)
    /\ c.footer.owner_count = Len(c.owners)
    /\ c.footer.owners_block_offset =
           BlockSize([i \in 1..Len(c.data) |-> c.data[i].rec])
    /\ c.footer.index_block_offset =
           c.footer.owners_block_offset + Len(c.owners) * AddressSize

\* new_from_path without the magic-number check.
new_from_path_nomagic(p) ==
    IF fs[p] = NoFile THEN [ok |-> FALSE, err |-> Err("Io", p), rd |-> NoReader]
    ELSE [ok |-> TRUE, err |-> Ok(<<>>),
          rd |-> [file |-> fs[p], footer |-> files[fs[p]].footer]]

\* TieredStorageReader::new_from_path: open, map, validate the trailer.
new_from_path(p) ==
    IF fs[p] = NoFile THEN [ok |-> FALSE, err |-> Err("Io", p), rd |-> NoReader]
    ELSE LET c == files[fs[p]]
         IN IF ~c.magic
            THEN [ok |-> FALSE, err |-> Err("InvalidMagic", p), rd |-> NoReader]
            ELSE IF ~FooterConsistent(c)
            THEN [ok |-> FALSE, err |-> Err("InvalidFooter", p), rd |-> NoReader]
            ELSE [ok |-> TRUE, err |-> Ok(<<>>),
                  rd |-> [file |-> fs[p], footer |-> c.footer]]

\* TieredStorageReader::num_accounts: the count the footer holds.
num_accounts(rd) == rd.footer.account_entry_count

NoRecord == [none |-> TRUE]

\* A read that ran off the mapped region, or a record that names no owner
\* entry.
ReadError == [error |-> TRUE]

\* The record a position of the index block leads to: the index entry
\* gives the offset, the data block the record at that offset, the owners
\* block the owner's address; with it the next position.
RecordAt(c, pos) ==
    IF pos + 1 \notin DOMAIN c.index THEN ReadError
    ELSE LET off == c.index[pos + 1]
             slots == {i \in 1..Len(c.data) : c.data[i].offset = off}
         IN IF slots = {} THEN ReadError
            ELSE LET rec == c.data[CHOOSE i \in slots : TRUE].rec
                 IN IF rec.owner_index + 1 \notin DOMAIN c.owners
                    THEN ReadError
                    ELSE [address |-> rec.address, lamports |-> rec.lamports,
                          owner |-> c.owners[rec.owner_index + 1],
                          data |-> rec.data, executable |-> rec.executable,
                          hash |-> rec.hash, next |-> pos + 1]

\* get_account that takes the position one past the last for a record.
get_account_offbyone(rd, pos) ==
    IF pos > num_accounts(rd) THEN NoRecord
    ELSE RecordAt(files[rd.file], pos)

\* TieredStorageReader::get_account at a 0-based index position: none at
\* or past the count, else the record there.
get_account(rd, pos) ==
    IF pos >= num_accounts(rd) THEN NoRecord
    ELSE RecordAt(files[rd.file], pos)

\* ---------------------------------------------------------------- queries
\* TieredStorage::reader: the cell's content, if any.
get_reader(h) == reader[h]

\* TieredStorage::is_read_only.
is_read_only(h) == get_reader(h) # NoReader

\* TieredStorage::file_size: 0 when the file cannot be opened.
file_size(h) == IF fs[path[h]] = NoFile THEN 0 ELSE FileLen(files[fs[path[h]]])

\* No write_accounts call holds a reference to the handle.
Unborrowed(h) == \A t \in Threads : call[t].pc \in {"idle", "done", "panicked"} \/ call[t].h # h

\* ------------------------------------------------------- TransactionState
\* SanitizedTransactionTTL: a transaction tied to its max age slot.
Transactions == {"tx1", "tx2"}
TTLs == [transaction : Transactions, max_age_slot : 1..MaxSlot]
NoTtl == [none |-> TRUE]

ComputeBudgets ==
    [compute_unit_price : 0..MaxPrice, compute_unit_limit : 0..MaxPrice]

\* TransactionCost: a simple vote, or a transaction with its usage costs.
SimpleVoteCost == [kind |-> "SimpleVote", writable_accounts |-> <<>>]
UsageCost == [kind |-> "Transaction", signature_cost |-> 5000]
Costs == {SimpleVoteCost, UsageCost}

\* The two variants of the enum.
Unprocessed(ttl, cbd, cost, fwd) ==
    [variant |-> "Unprocessed", transaction_ttl |-> ttl,
     compute_budget_details |-> cbd, transaction_cost |-> cost,
     forwarded |-> fwd]
Pending(cbd, cost, fwd) ==
    [variant |-> "Pending", transaction_ttl |-> NoTtl,
     compute_budget_details |-> cbd, transaction_cost |-> cost,
     forwarded |-> fwd]

\* No TransactionState has been constructed; no call has been made.
NoState == [none |-> TRUE]
NoCall == [op |-> "none", arg |-> NoTtl, ret |-> NoTtl]

\* TransactionState::take: the state moved out, a dummy Pending left in
\* its place.
take(s) ==
    [taken |-> s,
     left |-> Pending([compute_unit_price |-> 0, compute_unit_limit |-> 0],
                      SimpleVoteCost, FALSE)]

\* The accessors, defined in both variants.
compute_budget_details(s) == s.compute_budget_details
transaction_cost(s) == s.transaction_cost
compute_unit_price(s) == compute_budget_details(s).compute_unit_price
forwarded(s) == s.forwarded

\* ------------------------------------------------------------------- Init
Init ==
    /\ hstate = [h \in Handles |-> "unborn"]
    /\ path = [h \in Handles |-> "p1"]
    /\ reader = [h \in Handles |-> NoReader]
    /\ fs = [p \in Paths |-> NoFile]
    /\ files = <<>>
    /\ call = [t \in Threads |-> Idle]
    /\ returned = [h \in Handles |-> FALSE]
    /\ born = [h \in Handles |-> "none"]
    /\ got = NoRead
    /\ opened = NoOpen
    /\ txstate = NoState
    /\ txheld = NoTtl
    /\ txlast = NoCall
    /\ txcount = 0
    /\ txpanic = "none"

\* ---------------------------------------------------------------- handles
\* new_writable that creates the file at once.
new_writable_creating(h, p) ==
    /\ hstate[h] = "unborn"
    /\ hstate' = [hstate EXCEPT ![h] = "live"]
    /\ path' = [path EXCEPT ![h] = p]
    /\ reader' = [reader EXCEPT ![h] = NoReader]
    /\ born' = [born EXCEPT ![h] = "new_writable"]
    /\ IF fs[p] = NoFile /\ Len(files) < MaxFiles
       THEN /\ files' = Append(files, EmptyFile)
            /\ fs' = [fs EXCEPT ![p] = Len(files) + 1]
       ELSE UNCHANGED <<fs, files>>
    /\ got' = NoRead
    /\ opened' = NoOpen
    /\ UNCHANGED txvars
    /\ UNCHANGED <<call, returned>>

\* TieredStorage::new_writable: no filesystem access.
new_writable(h, p) ==
    /\ hstate[h] = "unborn"
    /\ hstate' = [hstate EXCEPT ![h] = "live"]
    /\ path' = [path EXCEPT ![h] = p]
    /\ reader' = [reader EXCEPT ![h] = NoReader]
    /\ UNCHANGED <<fs, files, call, returned>>
    /\ got' = NoRead
    /\ opened' = NoOpen
    /\ UNCHANGED txvars
    /\ born' = [born EXCEPT ![h] = "new_writable"]

\* new_readonly over a reader that skips the magic-number check.
new_readonly_unvalidated(h, p) ==
    /\ hstate[h] = "unborn"
    /\ LET r == new_from_path_nomagic(p)
       IN /\ IF r.ok
             THEN /\ hstate' = [hstate EXCEPT ![h] = "live"]
                  /\ path' = [path EXCEPT ![h] = p]
                  /\ reader' = [reader EXCEPT ![h] = r.rd]
                  /\ born' = [born EXCEPT ![h] = "new_readonly"]
             ELSE UNCHANGED <<hstate, path, reader, born>>
          /\ opened' = [h |-> h, path |-> p, ret |-> r.err]
    /\ UNCHANGED <<fs, files, call, returned>>
    /\ got' = NoRead
    /\ UNCHANGED txvars

\* TieredStorage::new_readonly: a handle only when the reader opens; the
\* reader's error is returned otherwise.
new_readonly(h, p) ==
    /\ hstate[h] = "unborn"
    /\ LET r == new_from_path(p)
       IN /\ IF r.ok
             THEN /\ hstate' = [hstate EXCEPT ![h] = "live"]
                  /\ path' = [path EXCEPT ![h] = p]
                  /\ reader' = [reader EXCEPT ![h] = r.rd]
                  /\ born' = [born EXCEPT ![h] = "new_readonly"]
             ELSE UNCHANGED <<hstate, path, reader, born>>
          /\ opened' = [h |-> h, path |-> p, ret |-> r.err]
    /\ UNCHANGED <<fs, files, call, returned>>
    /\ got' = NoRead
    /\ UNCHANGED txvars

\* Drop that ends the handle and leaves the file under its name.
Drop_noremove(h) ==
    /\ hstate[h] = "live"
    /\ Unborrowed(h)
    /\ hstate' = [hstate EXCEPT ![h] =
           IF fs[path[h]] = NoFile THEN "drop_panicked" ELSE "dropped"]
    /\ reader' = [reader EXCEPT ![h] = NoReader]
    /\ got' = NoRead
    /\ opened' = NoOpen
    /\ UNCHANGED txvars
    /\ UNCHANGED <<path, fs, files, call, returned, born>>

\* Drop that completes without a word when there is no file to remove.
Drop_silent(h) ==
    /\ hstate[h] = "live"
    /\ Unborrowed(h)
    /\ hstate' = [hstate EXCEPT ![h] = "dropped"]
    /\ fs' = [fs EXCEPT ![path[h]] = NoFile]
    /\ reader' = [reader EXCEPT ![h] = NoReader]
    /\ UNCHANGED <<path, files, call, returned>>
    /\ got' = NoRead
    /\ opened' = NoOpen
    /\ UNCHANGED txvars
    /\ UNCHANGED born

\* impl Drop for TieredStorage: remove the file, panic when that fails.
Drop(h) ==
    /\ hstate[h] = "live"
    /\ Unborrowed(h)
    /\ IF fs[path[h]] = NoFile
       THEN /\ hstate' = [hstate EXCEPT ![h] = "drop_panicked"]
            /\ UNCHANGED fs
       ELSE /\ hstate' = [hstate EXCEPT ![h] = "dropped"]
            /\ fs' = [fs EXCEPT ![path[h]] = NoFile]
    /\ reader' = [reader EXCEPT ![h] = NoReader]
    /\ UNCHANGED <<path, files, call, returned>>
    /\ got' = NoRead
    /\ opened' = NoOpen
    /\ UNCHANGED txvars
    /\ UNCHANGED born

\* ManuallyDrop: the handle's lifetime ends and Drop never runs.
Forget(h) ==
    /\ hstate[h] = "live"
    /\ Unborrowed(h)
    /\ hstate' = [hstate EXCEPT ![h] = "forgotten"]
    /\ reader' = [reader EXCEPT ![h] = NoReader]
    /\ UNCHANGED <<path, fs, files, call, returned>>
    /\ got' = NoRead
    /\ opened' = NoOpen
    /\ UNCHANGED txvars
    /\ UNCHANGED born

\* reader().unwrap().get_account(IndexOffset(pos)) on a read-only handle:
\* the caller holds the result, which borrows from the handle, until its
\* next step.
read_account(h, pos) ==
    /\ hstate[h] = "live"
    /\ is_read_only(h)
    /\ got' = [h |-> h, pos |-> pos, result |-> get_account(get_reader(h), pos)]
    /\ opened' = NoOpen
    /\ UNCHANGED txvars
    /\ UNCHANGED <<hstate, path, reader, fs, files, call, returned, born>>

\* ---------------------------------------------------------- write_accounts
\* The call returns `ret`; its locals are gone, its arguments are kept
\* beside the result.
Return(t, ret) ==
    /\ call' = [call EXCEPT ![t] =
           [Idle EXCEPT !.pc = "done", !.h = call[t].h,
                        !.format = call[t].format, !.batch = call[t].batch,
                        !.skip = call[t].skip, !.ret = ret]]
    /\ returned' = [returned EXCEPT ![call[t].h] = TRUE]

\* write_accounts without its read-only check.
write_accounts_unchecked(t, h, format) ==
    /\ call[t].pc \in {"idle", "done"}
    /\ hstate[h] = "live"
    /\ LET c == [Idle EXCEPT !.h = h, !.format = format]
       IN IF format = HOT_FORMAT
          THEN /\ call' = [call EXCEPT ![t] = [c EXCEPT !.pc = "new"]]
               /\ UNCHANGED returned
          ELSE /\ call' = [call EXCEPT ![t] =
                     [c EXCEPT !.pc = "done",
                               !.ret = Err("UnknownFormat", path[h])]]
               /\ returned' = [returned EXCEPT ![h] = TRUE]
    /\ UNCHANGED <<hstate, path, reader, fs, files>>
    /\ got' = NoRead
    /\ opened' = NoOpen
    /\ UNCHANGED txvars
    /\ UNCHANGED born

\* write_accounts without its format check.
write_accounts_anyformat(t, h, format) ==
    /\ call[t].pc \in {"idle", "done"}
    /\ hstate[h] = "live"
    /\ LET c == [Idle EXCEPT !.h = h, !.format = format]
       IN IF is_read_only(h)
          THEN /\ call' = [call EXCEPT ![t] =
                     [c EXCEPT !.pc = "done",
                               !.ret = Err("AttemptToUpdateReadOnly", path[h])]]
               /\ returned' = [returned EXCEPT ![h] = TRUE]
          ELSE /\ call' = [call EXCEPT ![t] = [c EXCEPT !.pc = "new"]]
               /\ UNCHANGED returned
    /\ UNCHANGED <<hstate, path, reader, fs, files>>
    /\ got' = NoRead
    /\ opened' = NoOpen
    /\ UNCHANGED txvars
    /\ UNCHANGED born

\* write_accounts with the format check ahead of the read-only check.
write_accounts_formatfirst(t, h, format) ==
    /\ call[t].pc \in {"idle", "done"}
    /\ hstate[h] = "live"
    /\ LET c == [Idle EXCEPT !.h = h, !.format = format]
       IN IF format # HOT_FORMAT
          THEN /\ call' = [call EXCEPT ![t] =
                     [c EXCEPT !.pc = "done",
                               !.ret = Err("UnknownFormat", path[h])]]
               /\ returned' = [returned EXCEPT ![h] = TRUE]
          ELSE IF is_read_only(h)
          THEN /\ call' = [call EXCEPT ![t] =
                     [c EXCEPT !.pc = "done",
                               !.ret = Err("AttemptToUpdateReadOnly", path[h])]]
               /\ returned' = [returned EXCEPT ![h] = TRUE]
          ELSE /\ call' = [call EXCEPT ![t] = [c EXCEPT !.pc = "new"]]
               /\ UNCHANGED returned
    /\ UNCHANGED <<hstate, path, reader, fs, files>>
    /\ got' = NoRead
    /\ opened' = NoOpen
    /\ UNCHANGED txvars
    /\ UNCHANGED born

\* Entry: the read-only check, then the format check.  Neither touches the
\* filesystem; the first reads the OnceLock.
write_accounts(t, h, format) ==
    /\ call[t].pc \in {"idle", "done"}
    /\ hstate[h] = "live"
    /\ LET c == [Idle EXCEPT !.h = h, !.format = format]
       IN IF is_read_only(h)
          THEN /\ call' = [call EXCEPT ![t] =
                     [c EXCEPT !.pc = "done",
                               !.ret = Err("AttemptToUpdateReadOnly", path[h])]]
               /\ returned' = [returned EXCEPT ![h] = TRUE]
          ELSE IF format = HOT_FORMAT
          THEN /\ call' = [call EXCEPT ![t] = [c EXCEPT !.pc = "new"]]
               /\ UNCHANGED returned
          ELSE /\ call' = [call EXCEPT ![t] =
                     [c EXCEPT !.pc = "done",
                               !.ret = Err("UnknownFormat", path[h])]]
               /\ returned' = [returned EXCEPT ![h] = TRUE]
    /\ UNCHANGED <<hstate, path, reader, fs, files>>
    /\ got' = NoRead
    /\ opened' = NoOpen
    /\ UNCHANGED txvars
    /\ UNCHANGED born

\* HotStorageWriter::new(&self.path)?: creates the file, which must not
\* exist yet; any failure returns from write_accounts.
writer_new(t) ==
    /\ call[t].pc = "new"
    /\ LET p == path[call[t].h]
       IN \/ /\ Return(t, Err("Io", p))
             /\ UNCHANGED <<fs, files>>
          \/ /\ fs[p] = NoFile
             /\ Len(files) < MaxFiles
             /\ files' = Append(files, EmptyFile)
             /\ fs' = [fs EXCEPT ![p] = Len(files) + 1]
             /\ call' = [call EXCEPT ![t] =
                    [@ EXCEPT !.pc = "write", !.fd = Len(files) + 1]]
             /\ UNCHANGED returned
    /\ UNCHANGED <<hstate, path, reader>>
    /\ got' = NoRead
    /\ opened' = NoOpen
    /\ UNCHANGED txvars
    /\ UNCHANGED born

\* The pass called with start index 0 whatever `skip` is.
writer_write_accounts_noskip(t, batch, skip, k) ==
    /\ call[t].pc = "write"
    /\ files' = [files EXCEPT ![call[t].fd] = FileAfter(batch, k)]
    /\ call' = [call EXCEPT ![t] =
           [@ EXCEPT !.pc = "open", !.batch = batch, !.skip = skip,
                     !.result = IF k >= WriteSteps(batch)
                                THEN Ok(StoredInfos(batch))
                                ELSE Err("Io", path[call[t].h])]]
    /\ UNCHANGED <<hstate, path, reader, fs, returned>>
    /\ got' = NoRead
    /\ opened' = NoOpen
    /\ UNCHANGED txvars
    /\ UNCHANGED born

\* writer.write_accounts(accounts, skip): the pass over the batch from
\* `skip`, through the descriptor the writer holds.  The first k writes
\* succeed (all of them when k is large enough); the outcome is kept in
\* `result`, not returned yet.  The call's batch and start index are read
\* here for the first time; the start index lies within the batch.
writer_write_accounts(t, batch, skip, k) ==
    /\ call[t].pc = "write"
    /\ LET entries == EntriesFrom(batch, skip)
           done == k >= WriteSteps(entries)
       IN /\ files' = [files EXCEPT ![call[t].fd] = FileAfter(entries, k)]
          /\ call' = [call EXCEPT ![t] =
                 [@ EXCEPT !.pc = "open", !.batch = batch, !.skip = skip,
                           !.result = IF done THEN Ok(StoredInfos(entries))
                                      ELSE Err("Io", path[call[t].h])]]
    /\ UNCHANGED <<hstate, path, reader, fs, returned>>
    /\ got' = NoRead
    /\ opened' = NoOpen
    /\ UNCHANGED txvars
    /\ UNCHANGED born

\* open_reader over a reader that skips the magic-number check.
open_reader_unvalidated(t) ==
    /\ call[t].pc = "open"
    /\ LET r == new_from_path_nomagic(path[call[t].h])
       IN IF r.ok
          THEN /\ call' = [call EXCEPT ![t] = [@ EXCEPT !.pc = "set", !.rd = r.rd]]
               /\ UNCHANGED returned
          ELSE Return(t, r.err)
    /\ UNCHANGED <<hstate, path, reader, fs, files>>
    /\ got' = NoRead
    /\ opened' = NoOpen
    /\ UNCHANGED txvars
    /\ UNCHANGED born

\* TieredStorageReader::new_from_path(&self.path)?: an error returns from
\* write_accounts, whatever the pass's outcome was.
open_reader(t) ==
    /\ call[t].pc = "open"
    /\ LET r == new_from_path(path[call[t].h])
       IN IF r.ok
          THEN /\ call' = [call EXCEPT ![t] = [@ EXCEPT !.pc = "set", !.rd = r.rd]]
               /\ UNCHANGED returned
          ELSE Return(t, r.err)
    /\ UNCHANGED <<hstate, path, reader, fs, files>>
    /\ got' = NoRead
    /\ opened' = NoOpen
    /\ UNCHANGED txvars
    /\ UNCHANGED born

\* set_reader with a plain store in place of OnceLock::set.
set_reader_overwrite(t) ==
    /\ call[t].pc = "set"
    /\ reader' = [reader EXCEPT ![call[t].h] = call[t].rd]
    /\ Return(t, call[t].result)
    /\ UNCHANGED <<hstate, path, fs, files>>
    /\ got' = NoRead
    /\ opened' = NoOpen
    /\ UNCHANGED txvars
    /\ UNCHANGED born

\* set_reader that returns the result and leaves the cell empty.
set_reader_noinstall(t) ==
    /\ call[t].pc = "set"
    /\ Return(t, call[t].result)
    /\ UNCHANGED <<hstate, path, reader, fs, files>>
    /\ got' = NoRead
    /\ opened' = NoOpen
    /\ UNCHANGED txvars
    /\ UNCHANGED born

\* self.reader.set(..).unwrap(), then `return result`: set fails, and
\* unwrap panics, when the cell is already full.
set_reader(t) ==
    /\ call[t].pc = "set"
    /\ LET h == call[t].h
       IN IF reader[h] = NoReader
          THEN /\ reader' = [reader EXCEPT ![h] = call[t].rd]
               /\ Return(t, call[t].result)
          ELSE /\ call' = [call EXCEPT ![t] =
                     [Idle EXCEPT !.pc = "panicked", !.h = h]]
               /\ UNCHANGED <<reader, returned>>
    /\ UNCHANGED <<hstate, path, fs, files>>
    /\ got' = NoRead
    /\ opened' = NoOpen
    /\ UNCHANGED txvars
    /\ UNCHANGED born

\* ----------------------------------------------- TransactionState calls
\* TransactionState::new: Unprocessed, not forwarded.
new(ttl, cbd, cost) ==
    /\ txstate = NoState
    /\ txstate' = Unprocessed(ttl, cbd, cost, FALSE)
    /\ UNCHANGED <<txheld, txlast, txcount, txpanic>>
    /\ UNCHANGED svars

\* A call can be made: the state exists and nothing has panicked.
Callable == txstate # NoState /\ txpanic = "none"

\* set_forwarded that flips the flag.
set_forwarded_toggle ==
    /\ Callable
    /\ txstate' = [txstate EXCEPT !.forwarded = ~txstate.forwarded]
    /\ txlast' = [NoCall EXCEPT !.op = "set_forwarded"]
    /\ UNCHANGED <<txheld, txcount, txpanic>>
    /\ UNCHANGED svars

\* TransactionState::set_forwarded, in either variant.
set_forwarded ==
    /\ Callable
    /\ txstate' = [txstate EXCEPT !.forwarded = TRUE]
    /\ txlast' = [NoCall EXCEPT !.op = "set_forwarded"]
    /\ UNCHANGED <<txheld, txcount, txpanic>>
    /\ UNCHANGED svars

\* transition_to_pending that lets a Pending state through.
transition_to_pending_lenient ==
    /\ Callable
    /\ txcount < MaxTransitions
    /\ txstate' = Pending(txstate.compute_budget_details,
                          txstate.transaction_cost, txstate.forwarded)
    /\ txheld' = txstate.transaction_ttl
    /\ txlast' = [NoCall EXCEPT !.op = "transition_to_pending",
                                !.ret = txstate.transaction_ttl]
    /\ txcount' = txcount + 1
    /\ UNCHANGED txpanic
    /\ UNCHANGED svars

\* transition_to_pending that rebuilds the state from what take left.
transition_to_pending_fromdummy ==
    /\ Callable
    /\ txcount < MaxTransitions
    /\ LET t == take(txstate)
       IN IF t.taken.variant = "Unprocessed"
          THEN /\ txstate' = t.left
               /\ txheld' = t.taken.transaction_ttl
               /\ txlast' = [NoCall EXCEPT !.op = "transition_to_pending",
                                           !.ret = t.taken.transaction_ttl]
               /\ txcount' = txcount + 1
               /\ UNCHANGED txpanic
          ELSE /\ txstate' = t.left
               /\ txlast' = [NoCall EXCEPT !.op = "transition_to_pending"]
               /\ txpanic' = "transaction already pending"
               /\ UNCHANGED <<txheld, txcount>>
    /\ UNCHANGED svars

\* TransactionState::transition_to_pending: take the state; move the ttl
\* out of an Unprocessed one and rebuild it as Pending, panic on a Pending
\* one with the dummy left in place.
transition_to_pending ==
    /\ Callable
    /\ txcount < MaxTransitions
    /\ LET t == take(txstate)
       IN IF t.taken.variant = "Unprocessed"
          THEN /\ txstate' = Pending(t.taken.compute_budget_details,
                                     t.taken.transaction_cost,
                                     t.taken.forwarded)
               /\ txheld' = t.taken.transaction_ttl
               /\ txlast' = [NoCall EXCEPT !.op = "transition_to_pending",
                                           !.ret = t.taken.transaction_ttl]
               /\ txcount' = txcount + 1
               /\ UNCHANGED txpanic
          ELSE /\ txstate' = t.left
               /\ txlast' = [NoCall EXCEPT !.op = "transition_to_pending"]
               /\ txpanic' = "transaction already pending"
               /\ UNCHANGED <<txheld, txcount>>
    /\ UNCHANGED svars

\* transition_to_unprocessed that lets an Unprocessed state through.
transition_to_unprocessed_lenient(transaction_ttl_arg) ==
    /\ Callable
    /\ txcount < MaxTransitions
    /\ txstate' = Unprocessed(transaction_ttl_arg,
                              txstate.compute_budget_details,
                              txstate.transaction_cost, txstate.forwarded)
    /\ txheld' = NoTtl
    /\ txlast' = [NoCall EXCEPT !.op = "transition_to_unprocessed",
                                !.arg = transaction_ttl_arg]
    /\ txcount' = txcount + 1
    /\ UNCHANGED txpanic
    /\ UNCHANGED svars

\* TransactionState::transition_to_unprocessed: take the state; rebuild a
\* Pending one as Unprocessed around the given ttl, panic on an
\* Unprocessed one with the dummy left in place.
transition_to_unprocessed(transaction_ttl_arg) ==
    /\ Callable
    /\ txcount < MaxTransitions
    /\ LET t == take(txstate)
       IN IF t.taken.variant = "Unprocessed"
          THEN /\ txstate' = t.left
               /\ txlast' = [NoCall EXCEPT !.op = "transition_to_unprocessed",
                                           !.arg = transaction_ttl_arg]
               /\ txpanic' = "already unprocessed"
               /\ UNCHANGED <<txheld, txcount>>
          ELSE /\ txstate' = Unprocessed(transaction_ttl_arg,
                                         t.taken.compute_budget_details,
                                         t.taken.transaction_cost,
                                         t.taken.forwarded)
               /\ txheld' = NoTtl
               /\ txlast' = [NoCall EXCEPT !.op = "transition_to_unprocessed",
                                           !.arg = transaction_ttl_arg]
               /\ txcount' = txcount + 1
               /\ UNCHANGED txpanic
    /\ UNCHANGED svars

\* transaction_ttl that answers with no ttl on a Pending state.
transaction_ttl_lenient ==
    /\ Callable
    /\ txlast' = [NoCall EXCEPT !.op = "transaction_ttl",
                                !.ret = txstate.transaction_ttl]
    /\ UNCHANGED <<txstate, txheld, txcount, txpanic>>
    /\ UNCHANGED svars

\* TransactionState::transaction_ttl: the ttl of an Unprocessed state,
\* a panic on a Pending one.
transaction_ttl ==
    /\ Callable
    /\ IF txstate.variant = "Unprocessed"
       THEN /\ txlast' = [NoCall EXCEPT !.op = "transaction_ttl",
                                        !.ret = txstate.transaction_ttl]
            /\ UNCHANGED txpanic
       ELSE /\ txlast' = [NoCall EXCEPT !.op = "transaction_ttl"]
            /\ txpanic' = "transaction is pending"
    /\ UNCHANGED <<txstate, txheld, txcount>>
    /\ UNCHANGED svars

\* ------------------------------------------------------------------- Next
\* The steps of the threads T on the handles H, bound to paths of P, with
\* batches from B.
NextOver(T, H, P, B) ==
    \/ \E h \in H, p \in P : new_writable(h, p)
    \/ \E h \in H, p \in P : new_readonly(h, p)
    \/ \E h \in H : Drop(h)
    \/ \E h \in H : Forget(h)
    \/ \E t \in T, h \in H, format \in Formats : write_accounts(t, h, format)
    \/ \E t \in T : writer_new(t)
    \/ \E t \in T, batch \in B :
           \E skip \in 0..Len(batch), k \in 0..WriteSteps(batch) :
               writer_write_accounts(t, batch, skip, k)
    \/ \E t \in T : open_reader(t)
    \/ \E t \in T : set_reader(t)
    \/ \E h \in H, pos \in 0..MaxPosition : read_account(h, pos)

\* Overlapping calls on several handles, all bound to one path.
Next == NextOver(Threads, Handles, {"p1"}, BatchesOf({Account1}, MaxBatch))

Spec == Init /\ [][Next]_vars

\* One handle and one caller, any path, longer batches.
NextSeq == NextOver({1}, {1}, Paths, BatchesOf(AccountPool, MaxBatchSeq))

SpecSeq == Init /\ [][NextSeq]_vars

\* One TransactionState and its scheduler.
NextTx ==
    \/ \E ttl \in TTLs, cbd \in ComputeBudgets, cost \in Costs : new(ttl, cbd, cost)
    \/ set_forwarded
    \/ transition_to_pending
    \/ \E ttl \in TTLs : transition_to_unprocessed(ttl)
    \/ transaction_ttl

SpecTx == Init /\ [][NextTx]_vars

\* ----------------------------------------------------------------- claims
\* Thread t enters write_accounts on handle h in this step.
Begins(t, h) ==
    /\ call[t].pc \in {"idle", "done"}
    /\ call'[t] # call[t]
    /\ call'[t].h = h

\* Some call is past both checks of write_accounts on handle h.
InPass(t, h) == call[t].h = h /\ call[t].pc \in {"new", "write", "open", "set"}

\* C1: a write_accounts call on a handle that is already read-only returns
\* AttemptToUpdateReadOnly with the handle's path, and leaves the files, the
\* names and every handle's reader as they were.
C1_SealedWriteRejected ==
    [][\A t \in Threads, h \in Handles :
          (Begins(t, h) /\ is_read_only(h))
              => /\ call'[t].pc = "done"
                 /\ call'[t].ret = Err("AttemptToUpdateReadOnly", path[h])
                 /\ UNCHANGED <<fs, files, reader>>]_vars

\* A call was rejected on a read-only handle whose file holds a record.
C1_Witness ==
    \E t \in Threads :
        /\ call[t].pc = "done"
        /\ call[t].ret.kind = "AttemptToUpdateReadOnly"
        /\ hstate[call[t].h] = "live"
        /\ is_read_only(call[t].h)
        /\ num_accounts(reader[call[t].h]) = 1

\* C2: once a write_accounts call on a handle has returned, with Ok or with
\* an error, every later call on it returns AttemptToUpdateReadOnly and
\* leaves the files alone.
C2_SecondCallRejected ==
    [][\A t \in Threads, h \in Handles :
          (Begins(t, h) /\ returned[h])
              => /\ call'[t].pc = "done"
                 /\ call'[t].ret = Err("AttemptToUpdateReadOnly", path[h])
                 /\ UNCHANGED <<fs, files>>]_vars

\* C3: of the calls that overlap on one handle at most one is past the
\* read-only check, and none panics.
C3_OneWritePass ==
    /\ \A h \in Handles : Cardinality({t \in Threads : InPass(t, h)}) <= 1
    /\ \A t \in Threads : call[t].pc # "panicked"

\* The file holds everything a completed write pass leaves.
Complete(c) ==
    /\ c.magic
    /\ FooterConsistent(c)
    /\ Len(c.data) = c.footer.account_entry_count

\* C4: the reader installed in a handle is over a file that a write pass
\* has completed (data, owners, index, footer and magic number written),
\* described by the footer the reader holds, and that no call is writing.
C4_ReaderOverCompleteFile ==
    \A h \in Handles :
        is_read_only(h)
            => /\ Complete(files[reader[h].file])
               /\ reader[h].footer = files[reader[h].file].footer
               /\ \A t \in Threads :
                      call[t].pc = "write" => call[t].fd # reader[h].file

\* A reader is installed while a write pass that failed part-way has left
\* a partial file under the path.
C4_Witness ==
    \E h \in Handles :
        /\ is_read_only(h)
        /\ fs[path[h]] # NoFile
        /\ fs[path[h]] # reader[h].file
        /\ files[fs[path[h]]].data # <<>>
        /\ ~files[fs[path[h]]].magic

\* C5: while a handle lives, once it is read-only its reader is never
\* replaced or cleared, so it becomes read-only at most once.
C5_SealedStaysSealed ==
    [][\A h \in Handles :
          (is_read_only(h) /\ hstate'[h] = "live") => reader'[h] = reader[h]]_vars

\* A second reader reached reader.set on a handle that was read-only, and
\* the handle kept the first.
C5_Witness ==
    \E t \in Threads :
        /\ call[t].pc = "panicked"
        /\ hstate[call[t].h] = "live"
        /\ is_read_only(call[t].h)

\* C6: reader() is present exactly when is_read_only(); a handle gains its
\* reader only at construction by new_readonly or when a write_accounts
\* call installs it; after a call that returned Ok the handle is read-only.
C6_ReaderIffReadOnly ==
    /\ [](\A h \in Handles : (get_reader(h) # NoReader) <=> is_read_only(h))
    /\ [](\A t \in Threads :
             (call[t].pc = "done" /\ call[t].ret.kind = "Ok"
              /\ hstate[call[t].h] = "live") => is_read_only(call[t].h))
    /\ [][\A h \in Handles :
             (~is_read_only(h) /\ is_read_only(h)')
                 => \/ hstate[h] = "unborn"
                    \/ \E t \in Threads :
                           /\ call[t].pc = "set" /\ call[t].h = h
                           /\ call'[t].pc = "done"]_vars

\* A write_accounts call returned Ok and its handle holds a reader.
C6_Witness ==
    \E t \in Threads :
        /\ call[t].pc = "done"
        /\ call[t].ret.kind = "Ok"
        /\ hstate[call[t].h] = "live"
        /\ get_reader(call[t].h) # NoReader

\* Thread t's call returned Ok and its handle still lives.
Sealed(t) ==
    /\ call[t].pc = "done"
    /\ call[t].ret.kind = "Ok"
    /\ hstate[call[t].h] = "live"

\* C7: on a handle that is not read-only, write_accounts with a format
\* other than HOT_FORMAT returns UnknownFormat with the handle's path; no
\* file is created or changed, file_size() is the same, no reader appears.
C7_UnknownFormatRejected ==
    [][\A t \in Threads, h \in Handles :
          (Begins(t, h) /\ ~is_read_only(h) /\ call'[t].format # HOT_FORMAT)
              => /\ call'[t].pc = "done"
                 /\ call'[t].ret = Err("UnknownFormat", path[h])
                 /\ UNCHANGED <<fs, files, reader>>
                 /\ file_size(h)' = file_size(h)]_vars

\* UnknownFormat was returned on the second path while an earlier failed
\* pass had left bytes in the file, and the handle is still writable.
C7_Witness ==
    \E t \in Threads :
        /\ call[t].pc = "done"
        /\ call[t].ret = Err("UnknownFormat", "p2")
        /\ hstate[call[t].h] = "live"
        /\ ~is_read_only(call[t].h)
        /\ file_size(call[t].h) > 0

\* C8: after a batch of zero records is written with HOT_FORMAT the handle
\* is read-only, the file is exactly a footer and a magic number, and the
\* reader counts 0 records.
C8_EmptyBatchFile ==
    \A t \in Threads :
        (Sealed(t) /\ call[t].batch = <<>>)
            => /\ is_read_only(call[t].h)
               /\ file_size(call[t].h) = FooterSize + MagicSize
               /\ num_accounts(get_reader(call[t].h)) = 0

\* An empty batch was written and sealed.
C8_Witness ==
    \E t \in Threads :
        /\ Sealed(t)
        /\ call[t].batch = <<>>
        /\ call[t].format = HOT_FORMAT
        /\ file_size(call[t].h) = FooterSize + MagicSize

\* C9 as first stated: the reader counts as many records as the batch
\* holds.
C9_CountIsBatchLength ==
    \A t \in Threads :
        Sealed(t) => num_accounts(get_reader(call[t].h)) = Len(call[t].batch)

\* C9: the reader counts the records of the batch from the start index
\* on: the batch's length less the start index.
C9_CountIsRecordsWritten ==
    \A t \in Threads :
        Sealed(t) => num_accounts(get_reader(call[t].h))
                         = Len(call[t].batch) - call[t].skip

\* A batch of three was written from start index 1 and sealed.
C9_Witness ==
    \E t \in Threads :
        /\ Sealed(t)
        /\ Len(call[t].batch) = 3
        /\ call[t].skip = 1
        /\ num_accounts(get_reader(call[t].h)) = 2

RECURSIVE Iterate(_, _)
\* The results get_account yields from a position on, each call made at
\* the next position the one before returned, until it yields none or
\* fails.
Iterate(rd, pos) ==
    LET r == get_account(rd, pos)
    IN IF r = NoRecord THEN <<>>
       ELSE IF r = ReadError THEN <<r>>
       ELSE <<r>> \o Iterate(rd, r.next)

\* A decoded record carries the entry's address and hash and, when the
\* entry has an account view, the view's fields.
MatchesInput(d, e) ==
    /\ d.address = e.address
    /\ d.hash = e.hash
    /\ e.account # NoAccount
           => /\ d.lamports = e.account.lamports
              /\ d.owner = e.account.owner
              /\ d.data = e.account.data
              /\ d.executable = e.account.executable

\* A decoded record is what verify_account expects for the entry.
MatchesExpected(d, e) ==
    /\ d.address = e.address
    /\ [lamports |-> d.lamports, owner |-> d.owner, data |-> d.data,
        executable |-> d.executable, hash |-> d.hash] = ExpectedFields(e)

\* C10 as first stated: every entry of the batch is decoded with its own
\* address, balance, owner, payload, executable flag and hash, and every
\* decoded record is such an entry.
C10_RoundTripAllInputs ==
    \A t \in Threads :
        Sealed(t) =>
            LET d == Iterate(get_reader(call[t].h), 0)
                b == call[t].batch
            IN /\ \A i \in 1..Len(b) : \E j \in 1..Len(d) : MatchesInput(d[j], b[i])
               /\ \A j \in 1..Len(d) : \E i \in 1..Len(b) : MatchesInput(d[j], b[i])

\* C10: every entry of the batch from the start index on is decoded with
\* its address and with the fields of its account view and its hash, or,
\* when it has no account view, with balance 0, OWNER_NO_OWNER, no payload,
\* not executable and the default hash; every decoded record is such an
\* entry.
C10_RoundTrip ==
    \A t \in Threads :
        Sealed(t) =>
            LET d == Iterate(get_reader(call[t].h), 0)
                b == EntriesFrom(call[t].batch, call[t].skip)
            IN /\ \A i \in 1..Len(b) : \E j \in 1..Len(d) : MatchesExpected(d[j], b[i])
               /\ \A j \in 1..Len(d) : \E i \in 1..Len(b) : MatchesExpected(d[j], b[i])

\* Three entries, one of them without an account view and two sharing an
\* owner, were written from start index 0 and read back.
C10_Witness ==
    \E t \in Threads :
        /\ Sealed(t)
        /\ call[t].batch = <<Account1, Account3, Account2>>
        /\ call[t].skip = 0
        /\ Len(Iterate(get_reader(call[t].h), 0)) = 3

\* C11: on every read-only handle get_account at a position at or past
\* num_accounts() returns none, not an error; following the next positions
\* from 0 yields exactly num_accounts() records, the i-th at position i,
\* and then none; and a get_account call changes no reader and no file.
C11_ReadPastEndIsTerminal ==
    /\ [](\A h \in Handles :
             (hstate[h] = "live" /\ is_read_only(h)) =>
                 LET rd == get_reader(h)
                     n == num_accounts(rd)
                     d == Iterate(rd, 0)
                 IN /\ \A pos \in 0..MaxPosition :
                           pos >= n => get_account(rd, pos) = NoRecord
                    /\ Len(d) = n
                    /\ \A i \in 1..Len(d) : d[i] # ReadError /\ d[i].next = i
                    /\ get_account(rd, n) = NoRecord)
    /\ [](got # NoRead =>
             /\ got.result # ReadError
             /\ got.pos >= num_accounts(get_reader(got.h)) <=> got.result = NoRecord)
    /\ [][got' # NoRead => UNCHANGED <<hstate, path, reader, fs, files, call, born, opened>>]_vars

\* A reader of two records was asked for a position past its count and
\* answered none.
C11_Witness ==
    /\ got # NoRead
    /\ num_accounts(get_reader(got.h)) = 2
    /\ got.pos > 2
    /\ got.result = NoRecord

\* The step runs Drop on handle h.
Drops(h) == hstate[h] = "live" /\ hstate'[h] \in {"dropped", "drop_panicked"}

\* The step ends handle h's lifetime with its cleanup suppressed.
Forgets(h) == hstate[h] = "live" /\ hstate'[h] = "forgotten"

\* The file handle h's reader is over is the one under h's path.
BackedByPath(h) == is_read_only(h) /\ fs[path[h]] = reader[h].file

\* C12: when a read-only handle is dropped, whether write_accounts sealed
\* it or new_readonly opened it, no file is under its path afterwards,
\* the file it was backed by is removed by that step, no other name and
\* no file content changes, and the handle never lives or drops again;
\* names are removed by Drop only; when its cleanup is suppressed the
\* file is still under its path afterwards.
C12_DropRemovesFile ==
    [][/\ \A h \in Handles :
             /\ (Drops(h) /\ is_read_only(h))
                    => /\ fs'[path[h]] = NoFile
                       /\ BackedByPath(h) => hstate'[h] = "dropped"
                       /\ \A p \in Paths \ {path[h]} : fs'[p] = fs[p]
                       /\ files' = files
             /\ (Forgets(h) /\ BackedByPath(h))
                    => /\ fs'[path[h]] = reader[h].file
                       /\ files' = files
             /\ hstate[h] \in {"dropped", "drop_panicked", "forgotten"}
                    => hstate'[h] = hstate[h]
       /\ \A p \in Paths :
             (fs[p] # NoFile /\ fs'[p] = NoFile)
                 => \E h \in Handles : Drops(h) /\ path[h] = p]_vars

\* A handle that write_accounts sealed ended with its cleanup suppressed;
\* a handle that new_readonly then opened on the file was dropped, and no
\* file is under the path.
C12_Witness ==
    \E h1, h2 \in Handles :
        /\ born[h1] = "new_writable"
        /\ hstate[h1] = "forgotten"
        /\ \E t \in Threads :
               call[t].h = h1 /\ call[t].pc = "done" /\ call[t].ret.kind = "Ok"
        /\ born[h2] = "new_readonly"
        /\ hstate[h2] = "dropped"
        /\ fs[path[h2]] = NoFile

\* The step constructs handle h with new_writable.
BornWritable(h) == hstate[h] = "unborn" /\ born'[h] = "new_writable"

\* C13: new_writable touches no name and no file; right after it the
\* handle is not read-only, is bound to one of the paths, no file is
\* under that path and file_size() is 0; path() never changes afterwards;
\* a file comes to exist under a path only in the step of a write_accounts
\* call that creates the writer, past the read-only and format checks.
C13_NewWritableNoFile ==
    [][/\ \A h \in Handles :
             /\ BornWritable(h)
                    => /\ UNCHANGED <<fs, files, call>>
                       /\ hstate'[h] = "live"
                       /\ ~is_read_only(h)'
                       /\ path'[h] \in Paths
                       /\ fs'[path'[h]] = NoFile
                       /\ file_size(h)' = 0
             /\ hstate[h] # "unborn" => path'[h] = path[h]
       /\ \A p \in Paths :
             (fs[p] = NoFile /\ fs'[p] # NoFile)
                 => \E t \in Threads :
                        /\ call[t].pc = "new" /\ call'[t].pc = "write"
                        /\ call[t].format = HOT_FORMAT
                        /\ path[call[t].h] = p
                        /\ fs'[p] = call'[t].fd]_vars

\* A handle made by new_writable on the second path: writable, no file
\* created by anyone, size 0.
C13_Witness ==
    \E h \in Handles :
        /\ hstate[h] = "live"
        /\ born[h] = "new_writable"
        /\ path[h] = "p2"
        /\ ~is_read_only(h)
        /\ ~returned[h]
        /\ files = <<>>
        /\ file_size(h) = 0

\* The four format ids a footer carries.
FormatIds(f) ==
    <<f.account_meta_format, f.owners_block_format, f.index_block_format,
      f.account_block_format>>

\* C14: a new_readonly call on a path whose file a write pass completed
\* returns a live handle that is read-only at once, whose reader is over
\* that file and reports the number of records and the four format ids
\* the pass wrote; on a file that lacks its magic number or whose footer
\* is absent or does not describe it, the call returns InvalidMagic or
\* InvalidFooter with the path, and no handle and no reader come to be.
C14_OpenReadonly ==
    [][\A h \in Handles, p \in Paths :
          (opened' # NoOpen /\ opened'.h = h /\ opened'.path = p) =>
             /\ hstate[h] = "unborn"
             /\ UNCHANGED <<fs, files, call>>
             /\ (fs[p] # NoFile /\ Complete(files[fs[p]]))
                    => /\ opened'.ret.kind = "Ok"
                       /\ hstate'[h] = "live"
                       /\ path'[h] = p
                       /\ is_read_only(h)'
                       /\ reader'[h].file = fs[p]
                       /\ num_accounts(reader'[h]) = Len(files[fs[p]].data)
                       /\ FormatIds(reader'[h].footer) = FormatIds(HOT_FORMAT)
             /\ (fs[p] # NoFile /\ ~Complete(files[fs[p]]))
                    => /\ opened'.ret \in {Err("InvalidMagic", p),
                                           Err("InvalidFooter", p)}
                       /\ UNCHANGED <<hstate, path, reader, born>>]_vars

\* new_readonly opened the one-record file that another handle's
\* write_accounts call had written.
C14_Witness ==
    /\ opened # NoOpen
    /\ opened.ret.kind = "Ok"
    /\ hstate[opened.h] = "live"
    /\ is_read_only(opened.h)
    /\ num_accounts(get_reader(opened.h)) = 1
    /\ \E t \in Threads :
           /\ call[t].pc = "done" /\ call[t].ret.kind = "Ok"
           /\ call[t].h # opened.h
           /\ call[t].batch = <<Account1>>

\* new_readonly was refused on a file that a failed write pass had left
\* without its magic number.
C14_WitnessRefused ==
    /\ opened # NoOpen
    /\ opened.ret.kind = "InvalidMagic"
    /\ hstate[opened.h] = "unborn"
    /\ files[fs[opened.path]].data # <<>>

\* The step is a call of the TransactionState method `op`.
Calls(op) == Callable /\ txlast'.op = op /\ txvars' # txvars

\* The step is a transition that succeeds.
Transits == Callable /\ txcount' = txcount + 1

\* C15: transition_to_pending on an Unprocessed state leaves it Pending
\* and returns the ttl the state held, without a panic; on a Pending state
\* it panics with "transaction already pending".
C15_TransitionToPending ==
    [][Calls("transition_to_pending") =>
          IF txstate.variant = "Unprocessed"
          THEN /\ txstate'.variant = "Pending"
               /\ txlast'.ret = txstate.transaction_ttl
               /\ txheld' = txstate.transaction_ttl
               /\ txpanic' = "none"
          ELSE txpanic' = "transaction already pending"]_vars

\* A state that a transition had made Pending was asked to become Pending
\* again, and the call panicked.
C15_Witness ==
    /\ txpanic = "transaction already pending"
    /\ txlast.op = "transition_to_pending"
    /\ txcount = 1
    /\ txheld \in TTLs

\* C16: transition_to_unprocessed on a Pending state leaves it
\* Unprocessed, without a panic; on an Unprocessed state, a new one
\* included, it panics with "already unprocessed"; the variant changes in
\* successful transitions only, and after n of them the state is
\* Unprocessed when n is even and Pending when n is odd.
C16_TransitionToUnprocessed ==
    /\ [][Calls("transition_to_unprocessed") =>
             IF txstate.variant = "Pending"
             THEN txstate'.variant = "Unprocessed" /\ txpanic' = "none"
             ELSE txpanic' = "already unprocessed"]_vars
    /\ [][(Callable /\ txpanic' = "none"
            /\ txstate'.variant # txstate.variant) => Transits]_vars
    /\ [](Callable =>
             txstate.variant =
                 IF txcount % 2 = 0 THEN "Unprocessed" ELSE "Pending")

\* A state that no transition had touched was asked to become
\* Unprocessed, and the call panicked.
C16_Witness ==
    /\ txpanic = "already unprocessed"
    /\ txlast.op = "transition_to_unprocessed"
    /\ txcount = 0

\* A state went through four transitions and is Unprocessed again.
C16_WitnessAlternates ==
    /\ Callable
    /\ txcount = MaxTransitions
    /\ txstate.variant = "Unprocessed"

\* C17: a successful transition leaves the compute budget details, the
\* compute unit price, the transaction cost and the forwarded flag as they
\* were, so none of them shows what take() left; no call that returns
\* changes the details or the cost, and only set_forwarded changes the
\* flag.
C17_TransitionsKeepDetails ==
    /\ [][Transits =>
             /\ compute_budget_details(txstate') = compute_budget_details(txstate)
             /\ compute_unit_price(txstate') = compute_unit_price(txstate)
             /\ transaction_cost(txstate') = transaction_cost(txstate)
             /\ forwarded(txstate') = forwarded(txstate)]_vars
    /\ [][(Callable /\ txpanic' = "none") =>
             /\ compute_budget_details(txstate') = compute_budget_details(txstate)
             /\ transaction_cost(txstate') = transaction_cost(txstate)
             /\ forwarded(txstate') # forwarded(txstate)
                    => txlast'.op = "set_forwarded"]_vars

\* After two transitions the state shows a price, a cost and a flag that
\* all differ from what take() leaves.
C17_Witness ==
    /\ Callable
    /\ txcount = 2
    /\ compute_unit_price(txstate) = 1
    /\ transaction_cost(txstate) = UsageCost
    /\ forwarded(txstate)

\* C18: transaction_ttl() on an Unprocessed state returns the ttl it
\* holds and changes nothing; on a Pending state it panics with
\* "transaction is pending"; after transition_to_unprocessed(ttl) the state
\* holds the ttl passed in, which is the one transition_to_pending moved
\* out when the caller passes that one back.
C18_TransactionTtl ==
    /\ [][Calls("transaction_ttl") =>
             IF txstate.variant = "Unprocessed"
             THEN /\ txlast'.ret = txstate.transaction_ttl
                  /\ txlast'.ret \in TTLs
                  /\ txpanic' = "none"
                  /\ txstate' = txstate
             ELSE txpanic' = "transaction is pending"]_vars
    /\ [][(Calls("transition_to_unprocessed") /\ txpanic' = "none") =>
             /\ txstate'.transaction_ttl = txlast'.arg
             /\ txlast'.arg = txheld => txstate'.transaction_ttl = txheld]_vars
    /\ [](Callable => (txstate.variant = "Pending" <=> txheld # NoTtl))

\* transaction_ttl() returned the ttl that had been moved out and passed
\* back in.
C18_Witness ==
    /\ Callable
    /\ txlast.op = "transaction_ttl"
    /\ txcount = 2
    /\ txlast.ret = txstate.transaction_ttl
    /\ txlast.ret.transaction = "tx2"

\* transaction_ttl() panicked on a Pending state.
C18_WitnessPanics ==
    /\ txpanic = "transaction is pending"
    /\ txstate.variant = "Pending"
    /\ txheld \in TTLs

\* Thread t's call returns in this step.
Returns(t) == call[t].pc \notin {"idle", "done"} /\ call'[t].pc = "done"

\* No other handle has ever been bound to handle h's path.
SoleOwner(h) ==
    \A g \in Handles \ {h} : hstate[g] = "unborn" \/ path[g] # path[h]

OwnerOf(entries, i) == PersistedFields(entries[i]).owner

\* The distinct owner addresses among the first n of the entries.
OwnersSeen(entries, n) == {OwnerOf(entries, m) : m \in 1..n}

\* The position at which the i-th entry's owner first occurs.
FirstSeen(entries, i) ==
    CHOOSE k \in 1..i :
        /\ OwnerOf(entries, k) = OwnerOf(entries, i)
        /\ \A m \in 1..(k - 1) : OwnerOf(entries, m) # OwnerOf(entries, i)

\* C20: in the file of a write pass, complete or cut short, the i-th
\* record's owner index is the number of distinct owners seen before its
\* owner first occurred, so indices are 0, 1, 2, ... in first-seen order
\* and below the number of owners seen so far; in a sealed file the owners
\* block holds each distinct owner address of the entries once and no
\* other, every record's owner index is below the number of owner
\* entries, and the entry at that index is the owner address of the
\* record's input (OWNER_NO_OWNER when the input has no account view).
C20_OwnersTable ==
    \A t \in Threads :
        LET entries == EntriesFrom(call[t].batch, call[t].skip)
        IN /\ call[t].pc \in {"open", "set"} =>
                  LET c == files[call[t].fd]
                  IN \A i \in 1..Len(c.data) :
                         /\ c.data[i].rec.owner_index =
                                Cardinality(OwnersSeen(entries,
                                                       FirstSeen(entries, i) - 1))
                         /\ c.data[i].rec.owner_index <
                                Cardinality(OwnersSeen(entries, i))
           /\ Sealed(t) =>
                  LET c == files[get_reader(call[t].h).file]
                      n == Len(c.owners)
                  IN /\ \A i, j \in 1..n : i # j => c.owners[i] # c.owners[j]
                     /\ {c.owners[i] : i \in 1..n}
                            = OwnersSeen(entries, Len(entries))
                     /\ n = c.footer.owner_count
                     /\ Len(c.data) = Len(entries)
                     /\ \A i \in 1..Len(c.data) :
                            /\ c.data[i].rec.owner_index \in 0..(n - 1)
                            /\ c.owners[c.data[i].rec.owner_index + 1]
                                   = OwnerOf(entries, i)
                            /\ c.data[i].rec.owner_index =
                                   Cardinality(OwnersSeen(entries,
                                                          FirstSeen(entries, i) - 1))

\* A sealed file of three records: the second owner seen has index 1, the
\* third record shares the first record's owner and its index 0.
C20_Witness ==
    \E t \in Threads :
        /\ Sealed(t)
        /\ call[t].batch = <<Account2, Account3, Account1>>
        /\ call[t].skip = 0
        /\ files[get_reader(call[t].h).file].owners = <<"o1", OWNER_NO_OWNER>>
        /\ files[get_reader(call[t].h).file].data[3].rec.owner_index = 0

\* The bytes of the data block of a file.
DataSize(c) == BlockSize([i \in 1..Len(c.data) |-> c.data[i].rec])

\* C21: in a sealed file the index block has num_accounts() entries, the
\* i-th of them the offset at which the i-th record written lies, each
\* offset the end of the record before it, so offsets do not decrease; the
\* data block starts the file, the owners block starts where the data
\* block ends, the index block where the owners block ends, the footer
\* where the index block ends and the magic number closes the file, so
\* the regions the footer names lie inside the file and do not overlap.
C21_IndexAndLayout ==
    \A t \in Threads :
        Sealed(t) =>
            LET rd == get_reader(call[t].h)
                c == files[rd.file]
                f == c.footer
                n == num_accounts(rd)
                ownersEnd == f.owners_block_offset + f.owner_count * AddressSize
                indexEnd == f.index_block_offset + f.index_block_size
            IN /\ Len(c.index) = n
               /\ n = Len(EntriesFrom(call[t].batch, call[t].skip))
               /\ f.index_block_size = n * IndexEntrySize
               /\ \A i \in 1..n : c.index[i] = c.data[i].offset
               /\ n > 0 => c.index[1] = 0
               /\ \A i \in 1..(n - 1) :
                      /\ c.index[i + 1] = c.index[i] + EncodedSize(c.data[i].rec)
                      /\ c.index[i] <= c.index[i + 1]
               /\ \A i \in 1..n : c.index[i] + EncodedSize(c.data[i].rec) <= DataSize(c)
               /\ f.owners_block_offset = DataSize(c)
               /\ f.index_block_offset = ownersEnd
               /\ 0 <= f.owners_block_offset
               /\ f.owners_block_offset <= f.index_block_offset
               /\ c.magic
               /\ indexEnd + FooterSize + MagicSize = FileLen(c)
               /\ file_size(call[t].h) = FileLen(c)

\* A sealed file of three records of different sizes and two owners.
C21_Witness ==
    \E t \in Threads :
        /\ Sealed(t)
        /\ call[t].batch = <<Account1, Account2, Account3>>
        /\ call[t].skip = 0
        /\ files[get_reader(call[t].h).file].index = <<0, 9, 19>>
        /\ files[get_reader(call[t].h).file].footer.owner_count = 2

\* C22: a write_accounts call that returned Ok stored the entries of its
\* batch from `skip` to the end and no others, the i-th record of the file
\* being entry skip + i, and returned one StoredAccountInfo per record,
\* the i-th naming the offset and size of the i-th record; the first
\* record lies at offset 0 whatever `skip` is.  No step changes a file that
\* is complete, and a call on a handle that is read-only ends at once with
\* AttemptToUpdateReadOnly, so no later call adds to the file.
C22_WritesFromSkip ==
    /\ [](\A t \in Threads :
            Sealed(t) =>
                LET rd == get_reader(call[t].h)
                    c == files[rd.file]
                    b == call[t].batch
                    skip == call[t].skip
                    infos == call[t].ret.infos
                    n == Len(b) - skip
                IN /\ Len(c.data) = n
                   /\ num_accounts(rd) = n
                   /\ Len(infos) = n
                   /\ \A i \in 1..n :
                          /\ c.data[i].rec.address = b[skip + i].address
                          /\ MatchesExpected(RecordAt(c, i - 1), b[skip + i])
                          /\ infos[i].offset = c.data[i].offset
                          /\ infos[i].size = EncodedSize(c.data[i].rec)
                   /\ n > 0 => infos[1].offset = 0)
    /\ [][/\ \A id \in 1..Len(files) :
               files[id].magic => (Len(files') >= id /\ files'[id] = files[id])
          /\ \A t \in Threads, h \in Handles :
               (Begins(t, h) /\ is_read_only(h))
                   => /\ call'[t].pc = "done"
                      /\ call'[t].ret.kind = "AttemptToUpdateReadOnly"
                      /\ files' = files]_vars

\* A call with start index 1 over three entries returned two placement
\* results, for the second and the third entry, the first at offset 0.
C22_Witness ==
    \E t \in Threads :
        /\ Sealed(t)
        /\ call[t].batch = <<Account1, Account2, Account3>>
        /\ call[t].skip = 1
        /\ call[t].ret.infos = <<[offset |-> 0, size |-> 10], [offset |-> 10, size |-> 8]>>
        /\ files[get_reader(call[t].h).file].data[1].rec.address = Account2.address

\* A second call on the sealed handle, made to add to the file, returned
\* AttemptToUpdateReadOnly and the file holds what the first call wrote.
C22_WitnessNoAppend ==
    \E t \in Threads :
        /\ call[t].pc = "done"
        /\ call[t].ret.kind = "AttemptToUpdateReadOnly"
        /\ hstate[call[t].h] = "live"
        /\ is_read_only(call[t].h)
        /\ num_accounts(get_reader(call[t].h)) = 2

\* C23: a write_accounts call on a read-only handle with a format other
\* than HOT_FORMAT returns AttemptToUpdateReadOnly with the handle's path;
\* a call returns UnknownFormat only in the step it enters, with a format
\* other than HOT_FORMAT and on a handle that is not read-only then.
C23_ReadOnlyCheckFirst ==
    [][\A t \in Threads :
          /\ \A h \in Handles :
                (Begins(t, h) /\ is_read_only(h) /\ call'[t].format # HOT_FORMAT)
                    => /\ call'[t].pc = "done"
                       /\ call'[t].ret = Err("AttemptToUpdateReadOnly", path[h])
          /\ (call'[t] # call[t] /\ call'[t].pc = "done"
                 /\ call'[t].ret.kind = "UnknownFormat")
                    => /\ call[t].pc \in {"idle", "done"}
                       /\ call'[t].format # HOT_FORMAT
                       /\ ~is_read_only(call'[t].h)]_vars

\* A call with an unsupported format on a sealed handle was refused as an
\* update of a read-only storage.
C23_Witness ==
    \E t \in Threads :
        /\ call[t].pc = "done"
        /\ call[t].format = OTHER_FORMAT
        /\ call[t].ret = Err("AttemptToUpdateReadOnly", path[call[t].h])
        /\ hstate[call[t].h] = "live"
        /\ is_read_only(call[t].h)

\* A call with an unsupported format on a handle with no reader returned
\* UnknownFormat.
C23_WitnessWritable ==
    \E t \in Threads :
        /\ call[t].pc = "done"
        /\ call[t].format = OTHER_FORMAT
        /\ call[t].ret = Err("UnknownFormat", path[call[t].h])
        /\ hstate[call[t].h] = "live"
        /\ ~is_read_only(call[t].h)

\* C24: every drop of a handle either removes the file under the handle's
\* path and completes, or, when no file is under that path, panics and
\* leaves the names as they were; no handle's drop completes while its
\* path names no file.  So the drop of a new_writable handle whose path
\* never got a file panics, and so does the drop of a handle whose file
\* another handle's drop removed.
C24_DropPanicsWithoutFile ==
    [][\A h \in Handles :
          Drops(h) =>
              IF fs[path[h]] = NoFile
              THEN /\ hstate'[h] = "drop_panicked"
                   /\ fs' = fs
              ELSE /\ hstate'[h] = "dropped"
                   /\ fs' = [fs EXCEPT ![path[h]] = NoFile]]_vars

\* A handle made by new_writable was dropped before any file was created,
\* and the drop panicked.
C24_Witness ==
    \E h \in Handles :
        /\ born[h] = "new_writable"
        /\ hstate[h] = "drop_panicked"
        /\ files = <<>>
        /\ \A t \in Threads : call[t].pc = "idle"

\* Two handles held the same file; the drop of one removed it and the drop
\* of the other, opened read-only over that file, panicked.
C24_WitnessSecondHandle ==
    \E h1, h2 \in Handles :
        /\ h1 # h2
        /\ path[h1] = path[h2]
        /\ hstate[h1] = "dropped"
        /\ born[h2] = "new_readonly"
        /\ hstate[h2] = "drop_panicked"
        /\ Len(files) = 1

\* C25: a TransactionState is created Unprocessed with forwarded() false;
\* a set_forwarded call makes forwarded() true in the Unprocessed and in
\* the Pending state and changes nothing else of the state; and in every
\* step that does not panic, a state whose forwarded() is true keeps it
\* true.
C25_ForwardedSticks ==
    [][/\ (txstate = NoState /\ txstate' # NoState)
           => /\ txstate'.variant = "Unprocessed"
              /\ forwarded(txstate') = FALSE
       /\ (Callable /\ txlast'.op = "set_forwarded" /\ txcount' = txcount
             /\ txpanic' = "none")
           => /\ forwarded(txstate') = TRUE
              /\ txstate' = [txstate EXCEPT !.forwarded = TRUE]
              /\ txstate'.variant = txstate.variant
       /\ (Callable /\ forwarded(txstate) /\ txpanic' = "none")
           => forwarded(txstate')]_vars

\* The flag was set and the state then went through transitions both
\* ways; it is Unprocessed again and still forwarded.
C25_Witness ==
    /\ Callable
    /\ txstate.variant = "Unprocessed"
    /\ forwarded(txstate)
    /\ txcount >= 2
    /\ txlast.op = "transition_to_unprocessed"

\* set_forwarded was called on a Pending state, which is Pending still and
\* forwarded.
C25_WitnessPending ==
    /\ Callable
    /\ txstate.variant = "Pending"
    /\ forwarded(txstate)
    /\ txlast.op = "set_forwarded"

====
